---- MODULE Spec2Model ----
(***************************************************************************)
(* A model of the meal-logging store of bibe2: the MealDatabase class of   *)
(* src/database.py (two SQLite tables, nine methods) and the handlers of   *)
(* src/app.py that call it.                                                *)
(*                                                                         *)
(* Modelling choices, each taken from the code:                            *)
(*  - a table is the set of its rows; a full scan visits them by rowid;    *)
(*  - TEXT values are compared byte by byte (SQLite's BINARY collation),   *)
(*    so a date is compared as the text "YYYY-MM-DD", not as a day;        *)
(*  - REAL values are binary floating-point numbers: a result is rounded to*)
(*    MantissaBits significant bits after every operation (IEEE-754 has 53;*)
(*    the model keeps the rounding rule and scales the width down);        *)
(*  - CURRENT_TIMESTAMP has a resolution of one second: `now` counts the   *)
(*    seconds, created_at is the value of `now` at the INSERT;             *)
(*  - SQL leaves the relative order of rows with equal ORDER BY keys, and  *)
(*    the order in which the rows of a GROUP are summed, unspecified: the  *)
(*    model returns any of the orders.                                     *)
(***************************************************************************)
EXTENDS Integers, Sequences, FiniteSets, TLC

VARIABLES
    schema,           \* the names of the tables that exist in the file
    food_master,      \* the rows of table food_master
    meal_records,     \* the rows of table meal_records
    sqlite_sequence,  \* AUTOINCREMENT: the largest rowid ever given, per table
    now,              \* the wall clock, in seconds
    last,             \* the call of a MealDatabase method under way: op, args, ret
    ui,               \* the handler of app.py under way: its inputs and its message
    before            \* history: the store as the call under way found it

vars == <<schema, food_master, meal_records, sqlite_sequence, now, last, ui, before>>

----------------------------------------------------------------------------
(* Bounds of the model.                                                     *)

\* INSERTs into meal_records, beside the food master and the clock.
MaxMeals == 2
\* INSERTs into meal_records when the records are written and read back within
\* one second.
MaxQueryMeals == 3
\* INSERTs into food_master, beside meal records.
MaxFoods == 1
\* INSERTs into food_master when only the food master is exercised.
MaxMasterFoods == 3
\* Seconds the clock advances.
MaxTime == 1
\* Significant bits of a REAL (53 in IEEE-754 binary64): enough to hold 100.0.
MantissaBits == 5
\* The least positive REAL is 2^-FractionBits (2^-1074 in binary64).
FractionBits == 4
\* INSERTs into each table when meals are recorded through the form.
MaxFormRows == 2

----------------------------------------------------------------------------
(* TEXT: the values, their bytes, and SQLite's BINARY comparison.           *)

Dates == {"2023-12-31", "2024-01-05", "2024-01-10"}
FoodNames == {"", "Egg", "Eggplant", "Rice"}

\* The bytes of each TEXT value that is compared.
Bytes(t) ==
    CASE t = "2023-12-31" -> <<50, 48, 50, 51, 45, 49, 50, 45, 51, 49>>
      [] t = "2024-01-05" -> <<50, 48, 50, 52, 45, 48, 49, 45, 48, 53>>
      [] t = "2024-01-10" -> <<50, 48, 50, 52, 45, 48, 49, 45, 49, 48>>
      [] t = ""           -> <<>>
      [] t = "Egg"        -> <<69, 103, 103>>
      [] t = "Eggplant"   -> <<69, 103, 103, 112, 108, 97, 110, 116>>
      [] t = "Rice"       -> <<82, 105, 99, 101>>

\* memcmp over the common length (the first byte that differs decides), then the
\* shorter first.
BytesLeq(s, t) ==
    LET n == IF Len(s) < Len(t) THEN Len(s) ELSE Len(t)
        differ == {i \in 1..n : s[i] # t[i]}
    IN  IF differ = {} THEN Len(s) <= Len(t)
        ELSE LET k == CHOOSE i \in differ : \A j \in differ : i <= j
             IN  s[k] < t[k]

TextLeq(a, b) == BytesLeq(Bytes(a), Bytes(b))

\* Mutant: the upper bound left out of the range.
Between_HalfOpen(x, lo, hi) == TextLeq(lo, x) /\ TextLeq(x, hi) /\ x # hi

\* x BETWEEN lo AND hi.
Between(x, lo, hi) == TextLeq(lo, x) /\ TextLeq(x, hi)

----------------------------------------------------------------------------
(* REAL: non-negative binary floating point, round to nearest, ties to even *)

RECURSIVE Pow2(_)
Pow2(n) == IF n = 0 THEN 1 ELSE 2 * Pow2(n - 1)

\* x rounded to a multiple of 2^e, for the least e that leaves MantissaBits bits.
RECURSIVE RoundAt(_, _)
RoundAt(x, e) ==
    LET u == Pow2(e)
        q == x \div u
        r == x % u
    IN  IF x < Pow2(MantissaBits) * u
        THEN IF 2 * r > u \/ (2 * r = u /\ q % 2 = 1) THEN (q + 1) * u ELSE q * u
        ELSE RoundAt(x, e + 1)

RealRound(x) == RoundAt(x, 0)
RealAdd(a, b) == RealRound(a + b)

\* A REAL is held as the number of least positive REALs it counts: 1.0 is Unit.
\* Sums need no scale; quotients and products do.
Unit == Pow2(FractionBits)

\* p / q rounded to a multiple of 2^e, for the least e that leaves MantissaBits bits.
RECURSIVE RoundQuot(_, _, _)
RoundQuot(p, q, e) ==
    LET u == Pow2(e) * q
        n == p \div u
        r == p % u
    IN  IF p < Pow2(MantissaBits) * u
        THEN IF 2 * r > u \/ (2 * r = u /\ n % 2 = 1)
             THEN (n + 1) * Pow2(e) ELSE n * Pow2(e)
        ELSE RoundQuot(p, q, e + 1)

\* Python's a / b and a * b on floats.
RealDiv(a, b) == RoundQuot(a * Unit, b, 0)
RealMul(a, b) == RoundQuot(a * b, Unit, 0)

----------------------------------------------------------------------------
(* SQL: scans, ORDER BY, SUM.                                               *)

\* The orders of the rows of a set.
RECURSIVE Orders(_)
Orders(S) ==
    IF S = {} THEN {<<>>}
    ELSE UNION {{<<x>> \o p : p \in Orders(S \ {x})} : x \in S}

\* Sort keys, a tuple of columns each: the first column that differs decides.
RECURSIVE KeyLeq(_, _)
KeyLeq(k1, k2) ==
    IF k1 = <<>> THEN TRUE
    ELSE IF Head(k1) = Head(k2) THEN KeyLeq(Tail(k1), Tail(k2))
    ELSE BytesLeq(Head(k1), Head(k2))

\* ORDER BY: the orders of S that are ascending in key (a sort key for each row);
\* rows with equal keys come in any order.
OrderBy(S, key) ==
    {s \in Orders(S) : \A i \in 1..(Len(s) - 1) : KeyLeq(key[s[i]], key[s[i + 1]])}

\* A full table scan: by rowid.
ById(r) == <<(<<r.id>>)>>
Scan(table) == CHOOSE s \in OrderBy(table, [r \in table |-> ById(r)]) : TRUE

\* SUM(column) over rows in the order given: NULL (<<>>) over no rows, else <<sum>>.
RECURSIVE SumFrom(_, _, _)
SumFrom(acc, rows, col) ==
    IF rows = <<>> THEN acc
    ELSE SumFrom(RealAdd(acc, Head(rows)[col]), Tail(rows), col)

SqlSum(rows, col) == IF rows = <<>> THEN <<>> ELSE <<SumFrom(0, rows, col)>>

\* Python's `x or 0` on a fetched value: None and 0.0 give 0.
OrZero(v) == IF v = <<>> THEN 0 ELSE IF v[1] = 0 THEN 0 ELSE v[1]

\* AUTOINCREMENT: one more than the largest rowid ever given.
NextRowid(table) == sqlite_sequence[table] + 1

----------------------------------------------------------------------------
(* What a call leaves in `last` and `ui`.                                   *)

None == "None"
Call(op, args, ret) == [op |-> op, args |-> args, ret |-> ret]
NoCall == Call("", <<>>, None)
NoUi == [handler |-> "", args |-> <<>>, message |-> ""]

\* The content of the database file.
Snapshot ==
    [schema |-> schema, food_master |-> food_master,
     meal_records |-> meal_records, sqlite_sequence |-> sqlite_sequence]

Init ==
    /\ schema = {"food_master", "meal_records"}
    /\ food_master = {}
    /\ meal_records = {}
    /\ sqlite_sequence = [t \in {"food_master", "meal_records"} |-> 0]
    /\ now = 0
    /\ last = NoCall
    /\ ui = NoUi
    /\ before = Snapshot

\* No call is under way: the script is between two runs.
Idle == last = NoCall /\ ui = NoUi

\* The script run ends (st.rerun(), or the end of app.py): what the call returned
\* and what the handler showed are dropped.
Return ==
    /\ ~Idle
    /\ last' = NoCall
    /\ ui' = NoUi
    /\ before' = Snapshot
    /\ UNCHANGED <<schema, food_master, meal_records, sqlite_sequence, now>>

\* A second passes.
Tick ==
    /\ Idle
    /\ now < MaxTime
    /\ now' = now + 1
    /\ UNCHANGED <<schema, food_master, meal_records, sqlite_sequence, last, ui, before>>

----------------------------------------------------------------------------
(* MealDatabase                                                            *)

\* Mutant: DROP TABLE IF EXISTS before each CREATE TABLE.
init_db_Recreate ==
    /\ schema' = schema \cup {"food_master", "meal_records"}
    /\ food_master' = {}
    /\ meal_records' = {}
    /\ last' = Call("init_db", <<>>, None)
    /\ UNCHANGED <<sqlite_sequence, now>>

\* CREATE TABLE IF NOT EXISTS, twice.
init_db ==
    /\ schema' = schema \cup {"food_master", "meal_records"}
    /\ food_master' = IF "food_master" \in schema THEN food_master ELSE {}
    /\ meal_records' = IF "meal_records" \in schema THEN meal_records ELSE {}
    /\ last' = Call("init_db", <<>>, None)
    /\ UNCHANGED <<sqlite_sequence, now>>

\* Mutant: INSERT OR REPLACE under a UNIQUE name.
add_food_to_master_UniqueName(name, calories, protein, fat, carbs, fiber) ==
    /\ food_master' = {r \in food_master : r.name # name} \cup
           {[id |-> NextRowid("food_master"), name |-> name, calories |-> calories,
             protein |-> protein, fat |-> fat, carbs |-> carbs, fiber |-> fiber]}
    /\ sqlite_sequence' =
           [sqlite_sequence EXCEPT !["food_master"] = NextRowid("food_master")]
    /\ last' = Call("add_food_to_master",
                    <<name, calories, protein, fat, carbs, fiber>>, None)
    /\ UNCHANGED <<schema, meal_records, now>>

\* Mutant: the records of the food are derived again from the new entry.
add_food_to_master_Cascade(name, calories, protein, fat, carbs, fiber) ==
    /\ food_master' = food_master \cup
           {[id |-> NextRowid("food_master"), name |-> name, calories |-> calories,
             protein |-> protein, fat |-> fat, carbs |-> carbs, fiber |-> fiber]}
    /\ meal_records' =
           {IF r.food_name = name
            THEN [r EXCEPT !.calories = RealMul(calories, RealDiv(r.amount, 100 * Unit)),
                           !.protein = RealMul(protein, RealDiv(r.amount, 100 * Unit)),
                           !.fat = RealMul(fat, RealDiv(r.amount, 100 * Unit)),
                           !.carbs = RealMul(carbs, RealDiv(r.amount, 100 * Unit)),
                           !.fiber = RealMul(fiber, RealDiv(r.amount, 100 * Unit))]
            ELSE r : r \in meal_records}
    /\ sqlite_sequence' =
           [sqlite_sequence EXCEPT !["food_master"] = NextRowid("food_master")]
    /\ last' = Call("add_food_to_master",
                    <<name, calories, protein, fat, carbs, fiber>>, None)
    /\ UNCHANGED <<schema, now>>

\* INSERT INTO food_master: the store checks nothing about the name.
add_food_to_master(name, calories, protein, fat, carbs, fiber) ==
    /\ food_master' = food_master \cup
           {[id |-> NextRowid("food_master"), name |-> name, calories |-> calories,
             protein |-> protein, fat |-> fat, carbs |-> carbs, fiber |-> fiber]}
    /\ sqlite_sequence' =
           [sqlite_sequence EXCEPT !["food_master"] = NextRowid("food_master")]
    /\ last' = Call("add_food_to_master",
                    <<name, calories, protein, fat, carbs, fiber>>, None)
    /\ UNCHANGED <<schema, meal_records, now>>

\* SELECT * FROM food_master ORDER BY name.
ByName(r) == <<Bytes(r.name)>>
SelectFoods(table) == OrderBy(table, [r \in table |-> ByName(r)])
get_all_foods ==
    /\ \E foods \in SelectFoods(food_master) :
           last' = Call("get_all_foods", <<>>, foods)
    /\ UNCHANGED <<schema, food_master, meal_records, sqlite_sequence, now>>

\* Mutant: INTEGER PRIMARY KEY without AUTOINCREMENT, the id one more than the
\* largest in the table.
add_meal_record_MaxRowid(date, meal_type, food_name, amount, calories, protein, fat, carbs, fiber) ==
    LET ids == {r.id : r \in meal_records}
        id == IF ids = {} THEN 1 ELSE 1 + CHOOSE i \in ids : \A j \in ids : j <= i
    IN  /\ meal_records' = meal_records \cup
               {[id |-> id, date |-> date,
                 meal_type |-> meal_type, food_name |-> food_name, amount |-> amount,
                 calories |-> calories, protein |-> protein, fat |-> fat,
                 carbs |-> carbs, fiber |-> fiber, created_at |-> now]}
        /\ sqlite_sequence' = [sqlite_sequence EXCEPT !["meal_records"] = id]
        /\ last' = Call("add_meal_record",
                        <<date, meal_type, food_name, amount,
                          calories, protein, fat, carbs, fiber>>, None)
        /\ UNCHANGED <<schema, food_master, now>>

\* INSERT INTO meal_records: created_at defaults to CURRENT_TIMESTAMP.
add_meal_record(date, meal_type, food_name, amount, calories, protein, fat, carbs, fiber) ==
    /\ meal_records' = meal_records \cup
           {[id |-> NextRowid("meal_records"), date |-> date,
             meal_type |-> meal_type, food_name |-> food_name, amount |-> amount,
             calories |-> calories, protein |-> protein, fat |-> fat,
             carbs |-> carbs, fiber |-> fiber, created_at |-> now]}
    /\ sqlite_sequence' =
           [sqlite_sequence EXCEPT !["meal_records"] = NextRowid("meal_records")]
    /\ last' = Call("add_meal_record",
                    <<date, meal_type, food_name, amount,
                      calories, protein, fat, carbs, fiber>>, None)
    /\ UNCHANGED <<schema, food_master, now>>

\* SELECT ... WHERE date = ? ORDER BY created_at.
ByCreatedAt(r) == <<(<<r.created_at>>)>>
SelectDate(table, date) ==
    OrderBy({r \in table : r.date = date}, [r \in table |-> ByCreatedAt(r)])
get_meals_by_date(date) ==
    /\ \E df \in SelectDate(meal_records, date) :
           last' = Call("get_meals_by_date", <<date>>, df)
    /\ UNCHANGED <<schema, food_master, meal_records, sqlite_sequence, now>>

\* SELECT ... WHERE date BETWEEN ? AND ? ORDER BY date, created_at.
ByDateCreatedAt(r) == <<Bytes(r.date), <<r.created_at>>>>
SelectRange(table, start_date, end_date) ==
    OrderBy({r \in table : Between(r.date, start_date, end_date)},
            [r \in table |-> ByDateCreatedAt(r)])
get_meals_by_date_range(start_date, end_date) ==
    /\ \E df \in SelectRange(meal_records, start_date, end_date) :
           last' = Call("get_meals_by_date_range", <<start_date, end_date>>, df)
    /\ UNCHANGED <<schema, food_master, meal_records, sqlite_sequence, now>>

\* Mutant: WHERE id <= ?.
delete_meal_record_UpTo(record_id) ==
    /\ meal_records' = {r \in meal_records : r.id > record_id}
    /\ last' = Call("delete_meal_record", <<record_id>>, None)
    /\ UNCHANGED <<schema, food_master, sqlite_sequence, now>>

\* DELETE FROM meal_records WHERE id = ?: the row count is not looked at.
delete_meal_record(record_id) ==
    /\ meal_records' = {r \in meal_records : r.id # record_id}
    /\ last' = Call("delete_meal_record", <<record_id>>, None)
    /\ UNCHANGED <<schema, food_master, sqlite_sequence, now>>

\* Mutant: fiber left out of the SET list.
update_meal_record_NoFiber(record_id, date, meal_type, food_name, amount, calories, protein, fat, carbs, fiber) ==
    /\ meal_records' =
           {IF r.id = record_id
            THEN [r EXCEPT !.date = date, !.meal_type = meal_type,
                           !.food_name = food_name, !.amount = amount,
                           !.calories = calories, !.protein = protein,
                           !.fat = fat, !.carbs = carbs]
            ELSE r : r \in meal_records}
    /\ last' = Call("update_meal_record",
                    <<record_id, date, meal_type, food_name, amount,
                      calories, protein, fat, carbs, fiber>>, None)
    /\ UNCHANGED <<schema, food_master, sqlite_sequence, now>>

\* Mutant: INSERT OR REPLACE, which adds the row when no row has the id.
update_meal_record_Upsert(record_id, date, meal_type, food_name, amount, calories, protein, fat, carbs, fiber) ==
    /\ meal_records' = {r \in meal_records : r.id # record_id} \cup
           {[id |-> record_id, date |-> date,
             meal_type |-> meal_type, food_name |-> food_name, amount |-> amount,
             calories |-> calories, protein |-> protein, fat |-> fat,
             carbs |-> carbs, fiber |-> fiber, created_at |-> now]}
    /\ last' = Call("update_meal_record",
                    <<record_id, date, meal_type, food_name, amount,
                      calories, protein, fat, carbs, fiber>>, None)
    /\ UNCHANGED <<schema, food_master, sqlite_sequence, now>>

\* UPDATE meal_records SET <the nine columns> WHERE id = ?: one statement.
update_meal_record(record_id, date, meal_type, food_name, amount, calories, protein, fat, carbs, fiber) ==
    /\ meal_records' =
           {IF r.id = record_id
            THEN [r EXCEPT !.date = date, !.meal_type = meal_type,
                           !.food_name = food_name, !.amount = amount,
                           !.calories = calories, !.protein = protein,
                           !.fat = fat, !.carbs = carbs, !.fiber = fiber]
            ELSE r : r \in meal_records}
    /\ last' = Call("update_meal_record",
                    <<record_id, date, meal_type, food_name, amount,
                      calories, protein, fat, carbs, fiber>>, None)
    /\ UNCHANGED <<schema, food_master, sqlite_sequence, now>>

\* Mutant: row[2] read for "carbs" as for "fat".
DailySummary_WrongIndex(table, date) ==
    LET rows == SelectSeq(Scan(table), LAMBDA r : r.date = date)
    IN  [calories |-> OrZero(SqlSum(rows, "calories")),
         protein  |-> OrZero(SqlSum(rows, "protein")),
         fat      |-> OrZero(SqlSum(rows, "fat")),
         carbs    |-> OrZero(SqlSum(rows, "fat")),
         fiber    |-> OrZero(SqlSum(rows, "fiber"))]

\* SELECT SUM(...) x 5 WHERE date = ?: one scan, then `row[i] or 0` into the dict.
DailySummary(table, date) ==
    LET rows == SelectSeq(Scan(table), LAMBDA r : r.date = date)
    IN  [calories |-> OrZero(SqlSum(rows, "calories")),
         protein  |-> OrZero(SqlSum(rows, "protein")),
         fat      |-> OrZero(SqlSum(rows, "fat")),
         carbs    |-> OrZero(SqlSum(rows, "carbs")),
         fiber    |-> OrZero(SqlSum(rows, "fiber"))]

get_daily_summary(date) ==
    /\ last' = Call("get_daily_summary", <<date>>, DailySummary(meal_records, date))
    /\ UNCHANGED <<schema, food_master, meal_records, sqlite_sequence, now>>

\* One row of GROUP BY date: the sums over the group's rows in the order given.
GroupRow(date, rows) ==
    [date |-> date,
     total_calories |-> SqlSum(rows, "calories")[1],
     total_protein  |-> SqlSum(rows, "protein")[1],
     total_fat      |-> SqlSum(rows, "fat")[1],
     total_carbs    |-> SqlSum(rows, "carbs")[1],
     total_fiber    |-> SqlSum(rows, "fiber")[1]]

\* The rows GROUP BY date can give for one date of the selected rows.
GroupRows(selected, date) ==
    {GroupRow(date, rows) : rows \in Orders({r \in selected : r.date = date})}

\* Mutant: ORDER BY date DESC.
ByDate_Desc(g) == <<[i \in 1..Len(Bytes(g.date)) |-> 255 - Bytes(g.date)[i]]>>

\* SELECT date, SUM(...) x 5 WHERE date BETWEEN ? AND ? GROUP BY date ORDER BY date:
\* the frames it can return.
ByDate(g) == <<Bytes(g.date)>>
PeriodSummary(table, start_date, end_date) ==
    LET selected == {r \in table : Between(r.date, start_date, end_date)}
        dates == {r.date : r \in selected}
        picks == {pick \in [dates -> UNION {GroupRows(selected, d) : d \in dates}] :
                     \A d \in dates : pick[d] \in GroupRows(selected, d)}
    IN  UNION {OrderBy({pick[d] : d \in dates},
                       [g \in {pick[d] : d \in dates} |-> ByDate(g)]) : pick \in picks}

get_period_summary(start_date, end_date) ==
    /\ \E df \in PeriodSummary(meal_records, start_date, end_date) :
           last' = Call("get_period_summary", <<start_date, end_date>>, df)
    /\ UNCHANGED <<schema, food_master, meal_records, sqlite_sequence, now>>

----------------------------------------------------------------------------
(* app.py: the handlers that write.                                         *)

Shown(handler, args, message) == [handler |-> handler, args |-> args, message |-> message]

\* db = get_database(): a process start constructs MealDatabase, which runs init_db.
get_database ==
    /\ Idle
    /\ init_db
    /\ ui' = Shown("get_database", <<>>, "")
    /\ before' = Snapshot

\* Mutant: `if submitted:`, the name not looked at.
add_food_form_NoCheck(new_food_name, new_calories, new_protein, new_fat, new_carbs, new_fiber) ==
    /\ Idle
    /\ before' = Snapshot
    /\ ui' = Shown("add_food_form",
                   <<new_food_name, new_calories, new_protein, new_fat, new_carbs, new_fiber>>,
                   "success")
    /\ add_food_to_master(new_food_name, new_calories, new_protein,
                          new_fat, new_carbs, new_fiber)

\* The add-food form is submitted: `if submitted and new_food_name` ... `elif submitted`.
add_food_form(new_food_name, new_calories, new_protein, new_fat, new_carbs, new_fiber) ==
    /\ Idle
    /\ before' = Snapshot
    /\ ui' = Shown("add_food_form",
                   <<new_food_name, new_calories, new_protein, new_fat, new_carbs, new_fiber>>,
                   IF new_food_name # "" THEN "success" ELSE "error")
    /\ IF new_food_name # ""
       THEN add_food_to_master(new_food_name, new_calories, new_protein,
                               new_fat, new_carbs, new_fiber)
       ELSE /\ last' = NoCall
            /\ UNCHANGED <<schema, food_master, meal_records, sqlite_sequence, now>>

\* The record form: the foods are listed by get_all_foods, the select box offers
\* "" and then their names, and gives back the NAME under the option chosen; the
\* entry computed from is the first of the list with that name. The button stores
\* value * (amount / 100.0) for each nutrient.
meal_record_form(date, meal_type, option, amount) ==
    /\ Idle
    /\ before' = Snapshot
    /\ \E foods \in SelectFoods(food_master) :
           /\ foods # <<>>
           /\ option \in 1..Len(foods)
           /\ LET selected_food == foods[option].name
                  first == CHOOSE i \in 1..Len(foods) :
                               /\ foods[i].name = selected_food
                               /\ \A j \in 1..(i - 1) : foods[j].name # selected_food
                  food_data == foods[first]
                  ratio == RealDiv(amount, 100 * Unit)
              IN  /\ selected_food # ""
                  /\ add_meal_record(date, meal_type, selected_food, amount,
                                     RealMul(food_data.calories, ratio),
                                     RealMul(food_data.protein, ratio),
                                     RealMul(food_data.fat, ratio),
                                     RealMul(food_data.carbs, ratio),
                                     RealMul(food_data.fiber, ratio))
                  /\ ui' = Shown("meal_record_form",
                                 <<date, meal_type, foods[option], amount>>, "success")

\* The delete button of the record list, drawn only when the listed range has rows.
record_list_delete(start_date, end_date, record_id) ==
    /\ Idle
    /\ {r \in meal_records : Between(r.date, start_date, end_date)} # {}
    /\ record_id >= 1
    /\ delete_meal_record(record_id)
    /\ ui' = Shown("record_list_delete", <<record_id>>, "success")
    /\ before' = Snapshot

----------------------------------------------------------------------------
(* The inputs the model draws from.                                         *)

\* Per-100g values of a food: calories, protein, fat, carbs, fiber.
FoodValues == {<<6, 3, 1, 5, 2>>, <<4, 2, 3, 0, 1>>}

\* The mutable fields of a meal record other than its date.
MealInputs ==
    {[meal_type |-> "breakfast", food_name |-> "Rice", amount |-> 6,
      calories |-> 48, protein |-> 3, fat |-> 1, carbs |-> 5, fiber |-> 2],
     [meal_type |-> "lunch", food_name |-> "Egg", amount |-> 4,
      calories |-> 1, protein |-> 2, fat |-> 3, carbs |-> 0, fiber |-> 1]}

\* The ids a caller passes: those handed out, and one never handed out.
RecordIds(cap) == 1..(cap + 1)

\* A call from outside app.py's handlers.
Direct(A) == Idle /\ A /\ ui' = NoUi /\ before' = Snapshot

AddFood(names, values, cap) ==
    \E n \in names, v \in values :
        /\ sqlite_sequence["food_master"] < cap
        /\ Direct(add_food_to_master(n, v[1], v[2], v[3], v[4], v[5]))

SubmitFood(names, values, cap) ==
    \E n \in names, v \in values :
        /\ sqlite_sequence["food_master"] < cap
        /\ add_food_form(n, v[1], v[2], v[3], v[4], v[5])

AddMeal(dates, cap) ==
    \E d \in dates, m \in MealInputs :
        /\ sqlite_sequence["meal_records"] < cap
        /\ Direct(add_meal_record(d, m.meal_type, m.food_name, m.amount,
                                  m.calories, m.protein, m.fat, m.carbs, m.fiber))

UpdateMeal(dates, cap) ==
    \E id \in RecordIds(cap), d \in dates, m \in MealInputs :
        Direct(update_meal_record(id, d, m.meal_type, m.food_name, m.amount,
                                  m.calories, m.protein, m.fat, m.carbs, m.fiber))

DeleteMeal(cap) == \E id \in RecordIds(cap) : Direct(delete_meal_record(id))

ClickDelete(cap) == \E s \in Dates, e \in Dates, id \in RecordIds(cap) : record_list_delete(s, e, id)

ListDay == \E d \in Dates : Direct(get_meals_by_date(d))

ReadMeals ==
    \/ ListDay
    \/ \E s \in Dates, e \in Dates : Direct(get_meals_by_date_range(s, e))
    \/ \E d \in Dates : Direct(get_daily_summary(d))
    \/ \E s \in Dates, e \in Dates : Direct(get_period_summary(s, e))

\* The writes of the store, from the storage layer and from the handlers, over
\* two days and as the clock advances, beside a small food master.
Next ==
    \/ Tick
    \/ Return
    \/ Direct(init_db)
    \/ get_database
    \/ AddFood({"Rice"}, {<<6, 3, 1, 5, 2>>}, MaxFoods)
    \/ AddMeal({"2024-01-05", "2024-01-10"}, MaxMeals)
    \/ UpdateMeal({"2024-01-05", "2024-01-10"}, MaxMeals)
    \/ DeleteMeal(MaxMeals)
    \/ ClickDelete(MaxMeals)
    \/ ListDay

Spec == Init /\ [][Next]_vars

\* The meal records alone, written and read back within one second.
NextQuery ==
    \/ Return
    \/ AddMeal(Dates, MaxQueryMeals)
    \/ UpdateMeal(Dates, MaxQueryMeals)
    \/ DeleteMeal(MaxQueryMeals)
    \/ ReadMeals

SpecQuery == Init /\ [][NextQuery]_vars

\* Per-100g values of the foods offered by the form, and the grams eaten.
FormFoods ==
    {<<168 * Unit, 3 * Unit, Unit \div 4, 38 * Unit, Unit \div 2>>,
     <<128 * Unit, 2 * Unit, Unit, 28 * Unit, Unit \div 4>>}
FormAmounts == {50 * Unit, 120 * Unit}

RecordMeal(dates, cap) ==
    \E d \in dates, option \in 1..cap, amount \in FormAmounts :
        /\ sqlite_sequence["meal_records"] < cap
        /\ meal_record_form(d, "lunch", option, amount)

\* Meals recorded through the form from a food master that grows.
NextForm ==
    \/ Return
    \/ AddFood({"Rice"}, FormFoods, MaxFormRows)
    \/ RecordMeal({"2024-01-05", "2024-01-10"}, MaxFormRows)

SpecForm == Init /\ [][NextForm]_vars

\* The food master alone.
NextFood ==
    \/ Return
    \/ Direct(init_db)
    \/ get_database
    \/ AddFood(FoodNames, FoodValues, MaxMasterFoods)
    \/ SubmitFood(FoodNames, FoodValues, MaxMasterFoods)
    \/ Direct(get_all_foods)

SpecFood == Init /\ [][NextFood]_vars
----------------------------------------------------------------------------
(* What the claims speak of, stated apart from the queries above.           *)

Nutrients == {"calories", "protein", "fat", "carbs", "fiber"}

\* The calendar day a text "YYYY-MM-DD" names, as a number that grows with the day.
Digit(b) == b - 48
CalendarDay(t) ==
    LET b == Bytes(t)
        year == 1000 * Digit(b[1]) + 100 * Digit(b[2]) + 10 * Digit(b[3]) + Digit(b[4])
        month == 10 * Digit(b[6]) + Digit(b[7])
        day == 10 * Digit(b[9]) + Digit(b[10])
    IN  (year * 12 + (month - 1)) * 31 + (day - 1)

\* The sum of a column over a set of rows, in the reals.
RECURSIVE ExactSum(_, _)
ExactSum(S, col) ==
    IF S = {} THEN 0
    ELSE LET r == CHOOSE x \in S : TRUE IN r[col] + ExactSum(S \ {r}, col)

\* The REAL sum of a column over rows added in the order given.
RECURSIVE RealSum(_, _)
RealSum(rows, col) ==
    IF rows = <<>> THEN 0
    ELSE RealAdd(RealSum(SubSeq(rows, 1, Len(rows) - 1), col), rows[Len(rows)][col])

\* Every sum up to this one is a REAL: no addition rounds.
Exact(S, col) == ExactSum(S, col) <= Pow2(MantissaBits)

Range(seq) == {seq[i] : i \in 1..Len(seq)}
Ids(table) == {r.id : r \in table}
OnDate(table, date) == {r \in table : r.date = date}
InDays(table, start, end) ==
    {r \in table : CalendarDay(start) <= CalendarDay(r.date)
                   /\ CalendarDay(r.date) <= CalendarDay(end)}

----------------------------------------------------------------------------
\* C1 (as stated): get_daily_summary(D) returns, for each nutrient, the sum over
\* the records dated D whatever the order they were inserted in: summing them in
\* any order gives the value returned.
C1_SumInAnyOrder ==
    last.op = "get_daily_summary" =>
        \A col \in Nutrients :
            \A rows \in Orders(OnDate(meal_records, last.args[1])) :
                last.ret[col] = RealSum(rows, col)

\* C1 (amended): get_daily_summary(D) returns all five keys, each a number: 0 when
\* no record is dated D, else the REAL sum of the field over exactly the records
\* dated D, added in ascending id order; it is the exact sum, the same for every
\* insertion order, whenever no addition rounds.
C1_DailySummary ==
    last.op = "get_daily_summary" =>
        LET rows == OnDate(meal_records, last.args[1])
        IN  /\ DOMAIN last.ret = Nutrients
            /\ \A col \in Nutrients :
                   /\ last.ret[col] \in Nat
                   /\ rows = {} => last.ret[col] = 0
                   /\ \A ord \in Orders(rows) :
                          (\A i \in 1..(Len(ord) - 1) : ord[i].id < ord[i + 1].id)
                              => last.ret[col] = RealSum(ord, col)
                   /\ Exact(rows, col) =>
                          /\ last.ret[col] = ExactSum(rows, col)
                          /\ \A ord \in Orders(rows) : RealSum(ord, col) = last.ret[col]

\* Several records on the day asked for, another on another day, and no rounding.
C1_Witness ==
    /\ last.op = "get_daily_summary"
    /\ Cardinality(OnDate(meal_records, last.args[1])) >= 2
    /\ \E r \in meal_records : r.date # last.args[1]
    /\ Exact(OnDate(meal_records, last.args[1]), "calories")
    /\ last.ret.calories > 0
    /\ last.ret.fat # last.ret.carbs

\* C2: get_meals_by_date_range(start, end) returns each record whose day lies in
\* [start, end] once and no other record; nothing when start is after end.
C2_DateRange ==
    last.op = "get_meals_by_date_range" =>
        /\ Range(last.ret) = InDays(meal_records, last.args[1], last.args[2])
        /\ Len(last.ret) = Cardinality(Range(last.ret))
        /\ CalendarDay(last.args[1]) > CalendarDay(last.args[2]) => last.ret = <<>>

\* A range with a record on its first day, another on its last day, and one outside.
C2_Witness ==
    /\ last.op = "get_meals_by_date_range"
    /\ last.args[1] # last.args[2]
    /\ \E r \in Range(last.ret) : r.date = last.args[1]
    /\ \E r \in Range(last.ret) : r.date = last.args[2]
    /\ \E r \in meal_records : r \notin Range(last.ret)

\* C3: get_period_summary(start, end) returns one row for each day of [start, end]
\* that has a record and none for a day without, in strictly ascending day order,
\* each row holding the REAL sums of the five fields over that day's records (the
\* exact sums when no addition rounds).
C3_PeriodSummary ==
    last.op = "get_period_summary" =>
        LET df == last.ret
            within == InDays(meal_records, last.args[1], last.args[2])
        IN  /\ {df[i].date : i \in 1..Len(df)} = {r.date : r \in within}
            /\ \A i \in 1..(Len(df) - 1) :
                   CalendarDay(df[i].date) < CalendarDay(df[i + 1].date)
            /\ \A i \in 1..Len(df) :
                   LET rows == OnDate(meal_records, df[i].date)
                       total == [col \in Nutrients |->
                                    CASE col = "calories" -> df[i].total_calories
                                      [] col = "protein" -> df[i].total_protein
                                      [] col = "fat" -> df[i].total_fat
                                      [] col = "carbs" -> df[i].total_carbs
                                      [] col = "fiber" -> df[i].total_fiber]
                   IN  \A col \in Nutrients :
                           /\ \E ord \in Orders(rows) : total[col] = RealSum(ord, col)
                           /\ Exact(rows, col) => total[col] = ExactSum(rows, col)

\* Two days with records in the range, one of them with two records, one day without.
C3_Witness ==
    /\ last.op = "get_period_summary"
    /\ Len(last.ret) = 2
    /\ \E r1, r2 \in meal_records : r1.id # r2.id /\ r1.date = r2.date
                                    /\ r1.date = last.ret[1].date
    /\ \E d \in Dates :
           /\ CalendarDay(last.args[1]) < CalendarDay(d)
           /\ CalendarDay(d) < CalendarDay(last.args[2])
           /\ OnDate(meal_records, d) = {}

\* The row an update of `old` with the arguments of the call must leave.
Updated(old, args) ==
    [id |-> old.id, date |-> args[2], meal_type |-> args[3], food_name |-> args[4],
     amount |-> args[5], calories |-> args[6], protein |-> args[7], fat |-> args[8],
     carbs |-> args[9], fiber |-> args[10], created_at |-> old.created_at]

Covers(start, end, date) ==
    CalendarDay(start) <= CalendarDay(date) /\ CalendarDay(date) <= CalendarDay(end)

\* C4: update_meal_record on an existing id replaces the nine mutable fields in
\* one step and touches no other row; every get_meals_by_date_range that covers the
\* new date then returns the record with the new values, none that leaves the new
\* date out (the old date, when different) returns it, and no read returns the
\* record with only some fields replaced.
C4_UpdateReplacesAll ==
    (last.op = "update_meal_record" /\ last.args[1] \in Ids(before.meal_records)) =>
        LET old == CHOOSE r \in before.meal_records : r.id = last.args[1]
            new == Updated(old, last.args)
        IN  /\ meal_records = (before.meal_records \ {old}) \cup {new}
            /\ \A s \in Dates, e \in Dates :
                   \A df \in SelectRange(meal_records, s, e) :
                       /\ Covers(s, e, new.date) => new \in Range(df)
                       /\ ~Covers(s, e, new.date) => \A r \in Range(df) : r.id # old.id
                       /\ \A r \in Range(df) : r.id = old.id => r = new
            /\ \A d \in Dates :
                   \A df \in SelectDate(meal_records, d) :
                       \A r \in Range(df) : r.id = old.id => r = new

\* An update that moves a record to another date and changes its values, beside
\* another record.
C4_Witness ==
    /\ last.op = "update_meal_record"
    /\ \E old \in before.meal_records :
           /\ old.id = last.args[1]
           /\ old.date # last.args[2]
           /\ old.fiber # last.args[10]
    /\ Cardinality(meal_records) >= 2

\* C5: delete_meal_record and update_meal_record return None whether or not a row
\* has the id, and with an id no row has (never given, or deleted) they leave
\* meal_records, food_master and the id counters as they were; the delete button
\* reports success all the same.
C5_MissingIdNoOp ==
    last.op \in {"delete_meal_record", "update_meal_record"} =>
        /\ last.ret = None
        /\ ui.handler = "record_list_delete" => ui.message = "success"
        /\ last.args[1] \notin Ids(before.meal_records) =>
               /\ meal_records = before.meal_records
               /\ food_master = before.food_master
               /\ sqlite_sequence = before.sqlite_sequence

\* An update with the id of a record deleted before, beside rows in both tables.
C5_Witness ==
    /\ last.op = "update_meal_record"
    /\ last.args[1] \notin Ids(before.meal_records)
    /\ last.args[1] <= sqlite_sequence["meal_records"]
    /\ meal_records # {}
    /\ food_master # {}

\* C6: delete_meal_record on an existing id removes that record and nothing else:
\* the other meal records and the food master are as before, no get_meals_by_date
\* or get_meals_by_date_range returns a row with the id, and the daily and period
\* summaries are those of the other records.
C6_DeleteRemovesExactlyOne ==
    (last.op = "delete_meal_record" /\ last.args[1] \in Ids(before.meal_records)) =>
        LET gone == CHOOSE r \in before.meal_records : r.id = last.args[1]
            rest == {r \in before.meal_records : r.id # last.args[1]}
        IN  /\ meal_records = before.meal_records \ {gone}
            /\ Cardinality(meal_records) = Cardinality(before.meal_records) - 1
            /\ food_master = before.food_master
            /\ \A d \in Dates :
                   /\ \A df \in SelectDate(meal_records, d) :
                          \A r \in Range(df) : r.id # gone.id
                   /\ DailySummary(meal_records, d) = DailySummary(rest, d)
            /\ \A s \in Dates, e \in Dates :
                   /\ \A df \in SelectRange(meal_records, s, e) :
                          \A r \in Range(df) : r.id # gone.id
                   /\ PeriodSummary(meal_records, s, e) = PeriodSummary(rest, s, e)

\* The delete button removes one of two records, beside a food master entry.
C6_Witness ==
    /\ last.op = "delete_meal_record"
    /\ ui.handler = "record_list_delete"
    /\ last.args[1] \in Ids(before.meal_records)
    /\ meal_records # {}
    /\ food_master # {}

\* a <= b for two texts, by the first byte that differs (a prefix comes first).
LexLeq(a, b) ==
    LET x == Bytes(a)
        y == Bytes(b)
    IN  \/ Len(x) <= Len(y) /\ \A i \in 1..Len(x) : x[i] = y[i]
        \/ \E k \in 1..Len(x) :
               /\ k <= Len(y)
               /\ \A i \in 1..(k - 1) : x[i] = y[i]
               /\ x[k] < y[k]

\* C7: add_food_to_master adds one entry with the six fields given and keeps every
\* entry that was there, also one of the same name; no call drops an entry; and
\* get_all_foods returns every entry once, by name ascending.
C7_AddThenList ==
    /\ before.food_master \subseteq food_master
    /\ last.op = "add_food_to_master" =>
           /\ Cardinality(food_master) = Cardinality(before.food_master) + 1
           /\ \E row \in food_master \ before.food_master :
                  <<row.name, row.calories, row.protein, row.fat, row.carbs, row.fiber>>
                      = last.args
    /\ last.op = "get_all_foods" =>
           /\ Range(last.ret) = food_master
           /\ Len(last.ret) = Cardinality(food_master)
           /\ \A i \in 1..Len(last.ret) : \A j \in i..Len(last.ret) :
                  LexLeq(last.ret[i].name, last.ret[j].name)

\* The list holds two entries of one name with different values, and an entry added
\* after them that comes first.
C7_Witness ==
    /\ last.op = "get_all_foods"
    /\ Len(last.ret) = 3
    /\ \E i, j \in 1..3 :
           /\ last.ret[i].name = last.ret[j].name
           /\ last.ret[i].calories # last.ret[j].calories
    /\ last.ret[1].id = 3

\* C8 (as stated): get_meals_by_date(D) returns the records dated D in the order
\* they were added (ids grow with each add), also when two were added within one
\* second and when a record was moved onto D by an update.
C8_EntryOrder ==
    last.op = "get_meals_by_date" =>
        /\ Range(last.ret) = OnDate(meal_records, last.args[1])
        /\ \A i \in 1..Len(last.ret) : \A j \in (i + 1)..Len(last.ret) :
               last.ret[i].id < last.ret[j].id

\* C9: init_db on an existing store changes nothing: the tables that exist, every
\* food master entry, every meal record and both id counters are as before (so a
\* second call changes nothing either).
C9_InitIdempotent ==
    last.op = "init_db" =>
        /\ Snapshot = before
        /\ last.ret = None

\* A process start (get_database) on a store with rows in both tables and a meal
\* record already deleted.
C9_Witness ==
    /\ last.op = "init_db"
    /\ ui.handler = "get_database"
    /\ food_master # {}
    /\ meal_records # {}
    /\ sqlite_sequence["meal_records"] > Cardinality(meal_records)

\* C10: the add-food form submitted with an empty name shows an error, calls no
\* storage method and leaves food_master as it was; add_food_to_master called
\* with an empty name inserts the entry.
C10_EmptyNameRejected ==
    /\ (ui.handler = "add_food_form" /\ ui.args[1] = "") =>
           /\ ui.message = "error"
           /\ last = NoCall
           /\ food_master = before.food_master
           /\ sqlite_sequence = before.sqlite_sequence
    /\ (ui.handler = "add_food_form" /\ ui.args[1] # "") =>
           /\ ui.message = "success"
           /\ last.op = "add_food_to_master"
    /\ (last.op = "add_food_to_master" /\ last.args[1] = "") =>
           \E row \in food_master \ before.food_master : row.name = ""

\* The form is refused an empty name on a store that holds an empty-named entry,
\* inserted by a direct call.
C10_Witness ==
    /\ ui.handler = "add_food_form"
    /\ ui.message = "error"
    /\ \E row \in food_master : row.name = ""

\* C11: add_food_to_master, also of an entry named as a recorded food with other
\* values, leaves every meal record as it was (food_name, amount and the five
\* nutrients included), and with them every daily and period summary.
C11_RecordsStable ==
    last.op = "add_food_to_master" =>
        /\ meal_records = before.meal_records
        /\ \A d \in Dates :
               DailySummary(meal_records, d) = DailySummary(before.meal_records, d)
        /\ \A s \in Dates, e \in Dates :
               PeriodSummary(meal_records, s, e) = PeriodSummary(before.meal_records, s, e)

\* A second entry of the name of a recorded food, with other values, is added.
C11_Witness ==
    /\ last.op = "add_food_to_master"
    /\ \E r \in meal_records :
           /\ r.food_name = last.args[1]
           /\ DailySummary(meal_records, r.date).calories > 0
    /\ \E f \in before.food_master :
           f.name = last.args[1] /\ f.calories # last.args[2]

\* C12 (as stated): a meal recorded through the form is stored with the name of
\* the entry selected, the amount entered and, for each nutrient, the amount over
\* 100.0 times the per-100g value of the entry selected (in REAL arithmetic), as
\* the one new row of meal_records.
C12_FormScalesSelected ==
    ui.handler = "meal_record_form" =>
        LET entry == ui.args[3]
            amount == ui.args[4]
            ratio == RealDiv(amount, 100 * Unit)
        IN  \E r \in meal_records :
                /\ meal_records = before.meal_records \cup {r}
                /\ r \notin before.meal_records
                /\ r.food_name = entry.name
                /\ r.amount = amount
                /\ r.calories = RealMul(entry.calories, ratio)
                /\ r.protein = RealMul(entry.protein, ratio)
                /\ r.fat = RealMul(entry.fat, ratio)
                /\ r.carbs = RealMul(entry.carbs, ratio)
                /\ r.fiber = RealMul(entry.fiber, ratio)

\* C13: no two meal records have one id; update_meal_record leaves the ids as
\* they are; delete_meal_record takes away the id given and no other; and
\* add_meal_record gives an id larger than every id given before (the counter
\* never falls and no record, past or present, has an id above it), so the id of
\* a deleted record, the latest included, never comes back.
C13_IdsNeverReused ==
    LET given == sqlite_sequence["meal_records"]
        given_before == before.sqlite_sequence["meal_records"]
    IN  /\ \A r1 \in meal_records, r2 \in meal_records : r1.id = r2.id => r1 = r2
        /\ \A r \in meal_records \cup before.meal_records : r.id \in 1..given
        /\ given_before <= given
        /\ last.op = "update_meal_record" => Ids(meal_records) = Ids(before.meal_records)
        /\ last.op = "delete_meal_record" =>
               /\ Ids(meal_records) = Ids(before.meal_records) \ {last.args[1]}
               /\ given = given_before
        /\ last.op = "add_meal_record" =>
               \E r \in meal_records :
                   /\ r.id > given_before
                   /\ r.id \notin Ids(before.meal_records)
                   /\ Ids(meal_records) = Ids(before.meal_records) \cup {r.id}

\* A record is added after the only record, the latest added, was deleted.
C13_Witness ==
    /\ last.op = "add_meal_record"
    /\ before.meal_records = {}
    /\ before.sqlite_sequence["meal_records"] >= 1
    /\ Ids(meal_records) = {before.sqlite_sequence["meal_records"] + 1}
====
